---- MODULE Spec2Model ----
(***************************************************************************)
(* Model of the LumiCloneApp Bluetooth stack:                              *)
(*   utils/bluetooth.ts        the adapter module and its callback registry *)
(*   contexts/BluetoothContext the context provider                         *)
(*   BluetoothScreen           the onboarding screen state machine          *)
(*                                                                         *)
(* JavaScript runs one task at a time.  An action of this model is one     *)
(* task together with the microtasks it queues: a user event handler up to *)
(* its first platform await, or the resolution of one platform promise     *)
(* followed by the code that runs until the next platform await.  When an  *)
(* async adapter function settles, the continuation of the caller that     *)
(* awaits it runs in the same task, so it belongs to the same action.      *)
(***************************************************************************)
EXTENDS Integers, Sequences, FiniteSets, TLC

\* ------------------------------------------------------------------------
\* Bounds
NumDevices == 2      \* peripherals the chooser can offer
MaxCalls == 2        \* adapter calls that can be suspended at once
MaxOps == 1          \* connect and reconnect calls that reach a platform await

NULL == 0
Devices == 1..NumDevices
Slots == 1..MaxCalls

\* Error kinds (the messages the code throws, by the names the spec gives)
NotSupported == "NotSupported"
UserCancelled == "UserCancelled"
GattError == "GattError"
NotConnected == "NotConnected"
WriteError == "WriteError"
NoPriorDevice == "NoPriorDevice"
TypeError == "TypeError"

VARIABLES
    navigatorBluetooth,       \* TRUE iff navigator.bluetooth is present
    bluetoothDevice,          \* the four module-scoped handles; a handle is
    bluetoothServer,          \*   the id of the device the platform object
    bluetoothService,         \*   belongs to, or NULL
    bluetoothCharacteristic,
    callbacks,                \* registry: event name -> owner of the handler
    gatt,                     \* platform state of each peripheral
    calls,                    \* suspended adapter calls, one per slot
    screen,                   \* BluetoothScreen component state
    provider,                 \* BluetoothProvider component state
    hist                      \* history facts the properties speak about

vars == <<navigatorBluetooth, bluetoothDevice, bluetoothServer, bluetoothService,
          bluetoothCharacteristic, callbacks, gatt, calls, screen, provider,
          hist>>

\* ------------------------------------------------------------------------
\* Data

\* BluetoothDevice record of the adapter; NullRecord stands for null
NullRecord == [id |-> NULL, name |-> "", connected |-> FALSE]

\* name the platform reports for a peripheral ("" when it reports none)
PlatformName(d) == IF d = 1 THEN "Lumi" ELSE ""

\* bluetoothDevice.name || 'Arduino'
DeviceName(d) == IF PlatformName(d) # "" THEN PlatformName(d) ELSE "Arduino"

BluetoothDeviceRecord(d, c) == [id |-> d, name |-> DeviceName(d), connected |-> c]

CallbackKeys == {"onConnected", "onDisconnected", "onError", "onDataReceived"}

\* A suspended adapter call: the function, the platform promise it awaits
\* ("aborted" once the platform has decided to reject it), who awaits the
\* call, the peripheral the awaited platform object belongs to, whether the
\* screen's cancel button was pressed since the call began, and whether the
\* chooser of another call has replaced the device handle since it began.
NoCall == [op |-> "none", pc |-> "idle", caller |-> "none", dev |-> NULL,
           cancelled |-> FALSE, overtaken |-> FALSE]

\* Platform state of a peripheral: its link is up, its characteristic
\* notifies, the number of value-change listeners the characteristic
\* object carries.
\* The gattserverdisconnected listener is not part of it: the code adds it
\* before it first calls gatt.connect() on a device and never removes it,
\* so every device whose link is up carries it (once: addEventListener
\* ignores a listener that is already there).
GattIdle == [connected |-> FALSE, notifying |-> FALSE, valueListener |-> 0]

\* Payloads a notification can carry (UTF-8 bytes): "48" and "n-tilde"
Payloads == {<<52, 56>>, <<195, 177>>}

\* Strings sendData is called with, as code points
SendData == {<<52, 56>>}

\* ------------------------------------------------------------------------
\* Text codec (code points below U+0800: one- and two-byte sequences)

\* new TextEncoder().encode(data)
RECURSIVE Encode(_)
Encode(cps) ==
    IF cps = <<>> THEN <<>>
    ELSE LET c == Head(cps) IN
         IF c < 128 THEN <<c>> \o Encode(Tail(cps))
         ELSE <<192 + (c \div 64), 128 + (c % 64)>> \o Encode(Tail(cps))

\* new TextDecoder('utf-8').decode(value): a malformed byte becomes U+FFFD
RECURSIVE Decode(_)
Decode(bytes) ==
    IF bytes = <<>> THEN <<>>
    ELSE LET b == Head(bytes)
             rest == Tail(bytes) IN
         IF b < 128 THEN <<b>> \o Decode(rest)
         ELSE IF b >= 194 /\ b <= 223 /\ rest # <<>>
                 /\ Head(rest) >= 128 /\ Head(rest) <= 191
              THEN <<(b - 192) * 64 + (Head(rest) - 128)>> \o Decode(Tail(rest))
              ELSE <<65533>> \o Decode(rest)

\* ------------------------------------------------------------------------
\* The frame a task works on: the handles, the platform state and the two
\* components' state, together with what the task has done so far: the
\* callbacks it invoked and their arguments, the platform calls it made,
\* the values it gave the screen's connection state, and how the adapter
\* function it ran has ended ("pending": suspended at a platform await).

Frame == [dev |-> bluetoothDevice, srv |-> bluetoothServer,
          svc |-> bluetoothService, chr |-> bluetoothCharacteristic,
          g |-> gatt, s |-> screen, p |-> provider,
          nConnected |-> 0, nDisconnected |-> 0, nError |-> 0, nData |-> 0,
          errArg |-> "", rec |-> NullRecord, data |-> <<>>, trace |-> <<>>,
          platform |-> {}, result |-> "none"]

Call(f, name) == [f EXCEPT !.platform = @ \union {name}]
Result(f, r) == [f EXCEPT !.result = r]

\* React state setters of BluetoothScreen
setConnectionState(f, st) ==
    [f EXCEPT !.s.connectionState = st, !.trace = Append(@, st)]
setConnectedDevice(f, rec) == [f EXCEPT !.s.connectedDevice = rec]
setError(f, msg) == [f EXCEPT !.s.error = msg]

\* React state setters of BluetoothProvider
setDevice(f, rec) == [f EXCEPT !.p.device = rec]
setConnected(f, c) == [f EXCEPT !.p.connected = c]
setLastReceivedData(f, d) == [f EXCEPT !.p.lastReceivedData = d]

\* The handlers BluetoothScreen registers
ScreenOnConnected(f, rec) ==
    setError(setConnectionState(setConnectedDevice(f, rec), "connected"), "")
ScreenOnDisconnected(f) ==
    setConnectedDevice(setConnectionState(f, "idle"), NullRecord)
ScreenOnError(f, err) == setConnectionState(setError(f, err), "error")

\* The handlers BluetoothProvider registers
ProviderOnConnected(f, rec) == setConnected(setDevice(f, rec), TRUE)

\* (mutation) the provider's onDisconnected forgets setConnected(false)
Mut_ProviderOnDisconnected(f) == setDevice(f, NullRecord)

ProviderOnDisconnected(f) == setConnected(setDevice(f, NullRecord), FALSE)
ProviderOnError(f, err) == setConnected(f, FALSE)
ProviderOnDataReceived(f, d) == setLastReceivedData(f, d)

\* callbacks.onConnected?.(device)
FireOnConnected(f, rec) ==
    LET g == [f EXCEPT !.nConnected = @ + 1, !.rec = rec] IN
    CASE callbacks.onConnected = "screen" -> ScreenOnConnected(g, rec)
      [] callbacks.onConnected = "provider" -> ProviderOnConnected(g, rec)
      [] OTHER -> f

\* callbacks.onDisconnected?.()
FireOnDisconnected(f) ==
    LET g == [f EXCEPT !.nDisconnected = @ + 1] IN
    CASE callbacks.onDisconnected = "screen" -> ScreenOnDisconnected(g)
      [] callbacks.onDisconnected = "provider" -> ProviderOnDisconnected(g)
      [] OTHER -> f

\* callbacks.onError?.(error)
FireOnError(f, err) ==
    LET g == [f EXCEPT !.nError = @ + 1, !.errArg = err] IN
    CASE callbacks.onError = "screen" -> ScreenOnError(g, err)
      [] callbacks.onError = "provider" -> ProviderOnError(g, err)
      [] OTHER -> f

\* callbacks.onDataReceived?.(data); BluetoothScreen registers no handler
FireOnDataReceived(f, d) ==
    LET g == [f EXCEPT !.nData = @ + 1, !.data = d] IN
    CASE callbacks.onDataReceived = "provider" -> ProviderOnDataReceived(g, d)
      [] OTHER -> f

\* (mutation) callbacks = newCallbacks: registering replaces the registry
Mut_setBluetoothCallbacks(old, keys, owner) ==
    [k \in CallbackKeys |-> IF k \in keys THEN owner ELSE "none"]

\* callbacks = { ...callbacks, ...newCallbacks }
setBluetoothCallbacks(old, keys, owner) ==
    [k \in CallbackKeys |-> IF k \in keys THEN owner ELSE old[k]]

\* (mutation) the effect returns no cleanup: leaving "connected" keeps the
\* timer
Mut_AutoAdvanceEffect(old, new, timer) ==
    IF new = "connected"
    THEN (IF old = "connected" THEN timer ELSE TRUE)
    ELSE timer

\* The auto-advance effect of BluetoothScreen: entering "connected" arms
\* the timer, leaving it runs the cleanup that clears the timer.
AutoAdvanceEffect(old, new, timer) ==
    IF new = "connected"
    THEN (IF old = "connected" THEN timer ELSE TRUE)
    ELSE FALSE

\* ------------------------------------------------------------------------
\* Adapter module (utils/bluetooth.ts)

\* isBluetoothSupported()
isBluetoothSupported == navigatorBluetooth

\* getCurrentDevice(), on the handles of frame f
getCurrentDevice(f) ==
    IF f.dev = NULL THEN NullRecord
    ELSE BluetoothDeviceRecord(f.dev, f.g[f.dev].connected)

\* isConnected()
isConnected(f) == f.dev # NULL /\ f.g[f.dev].connected

\* (mutation) onDisconnected() forgets to clear the characteristic handle
Mut_OnDisconnectedClear(f) ==
    [f EXCEPT !.dev = NULL, !.srv = NULL, !.svc = NULL]

\* the four assignments that end onDisconnected()
OnDisconnectedClear(f) ==
    [f EXCEPT !.dev = NULL, !.srv = NULL, !.svc = NULL, !.chr = NULL]

\* onDisconnected(): the gattserverdisconnected listener
onDisconnected(f) == OnDisconnectedClear(FireOnDisconnected(f))

\* The platform takes the link of peripheral d down: its GATT objects die
\* and, when fires, gattserverdisconnected is dispatched to the listener.
LinkDown(f, d, fires) ==
    LET g == [f EXCEPT !.g[d].connected = FALSE, !.g[d].notifying = FALSE,
                       !.g[d].valueListener = 0] IN
    IF fires THEN onDisconnected(g) ELSE g

\* (mutation) disconnectFromArduino() forgets to clear the device handle
Mut_DisconnectClear(f) ==
    [f EXCEPT !.srv = NULL, !.svc = NULL, !.chr = NULL]

\* the four assignments that end disconnectFromArduino()
DisconnectClear(f) ==
    [f EXCEPT !.dev = NULL, !.srv = NULL, !.svc = NULL, !.chr = NULL]

\* (mutation) the guard does not look at gatt.connected
Mut_DisconnectRequested(f) == f.dev # NULL

\* the guard of disconnectFromArduino(): a platform disconnect is requested
DisconnectRequested(f) == f.dev # NULL /\ f.g[f.dev].connected

\* disconnectFromArduino(); fires: whether bluetoothDevice.gatt.disconnect()
\* dispatches gattserverdisconnected before it returns
disconnectFromArduino(f, fires) ==
    Result(IF DisconnectRequested(f)
           THEN DisconnectClear(LinkDown(Call(f, "gatt.disconnect"), f.dev, fires))
           ELSE DisconnectClear(f),
           "ok")

\* the catch block of connectToArduino() and of reconnectToArduino()
CatchConnect(f, err) == Result(FireOnError(f, err), err)

\* (mutation) the branch throws without notifying onError
Mut_ThrowNotSupported(f) == Result(f, NotSupported)

\* the branch of connectToArduino() taken without navigator.bluetooth
ThrowNotSupported(f) == Result(FireOnError(f, NotSupported), NotSupported)

\* connectToArduino() up to its first await
connectToArduino(f) ==
    IF ~isBluetoothSupported THEN ThrowNotSupported(f)
    ELSE Result(Call(f, "requestDevice"), "pending")

\* (mutation) reconnectToArduino() without its opening guard
Mut_ReconnectRefused(f) == FALSE

\* the guard that opens reconnectToArduino(): TRUE when it throws
ReconnectRefused(f) == f.dev = NULL

\* the throw that opens reconnectToArduino()
ThrowNoPriorDevice(f) == Result(f, NoPriorDevice)

\* reconnectToArduino() up to its first await
reconnectToArduino(f) ==
    IF ReconnectRefused(f) THEN ThrowNoPriorDevice(f)
    ELSE IF f.dev = NULL
    THEN CatchConnect(f, TypeError)    \* bluetoothDevice.gatt on null, in the try
    ELSE Result(Call(f, "gatt.connect"), "pending")

\* the guard that opens sendToArduino(): TRUE when it throws NotConnected
SendRefused(f) == f.chr = NULL

\* the throw that opens sendToArduino(), and its catch block
ThrowSend(f, err) == Result(f, err)

\* sendToArduino(data) up to its await
sendToArduino(f, data) ==
    IF SendRefused(f) THEN ThrowSend(f, NotConnected)
    ELSE Result(Call([f EXCEPT !.data = Encode(data)], "writeValue"), "pending")

\* requestDevice() has resolved with peripheral d: the code stores it, adds
\* the disconnect listener and calls gatt.connect()
ChooserResolved(f, d) ==
    Result(Call(Call([f EXCEPT !.dev = d], "addEventListener"), "gatt.connect"),
           "pending")

\* gatt.connect() of call c has resolved: the link is up, the code stores
\* the server and calls getPrimaryService()
GattResolved(f, c) ==
    Result(Call([f EXCEPT !.g[c.dev].connected = TRUE, !.srv = c.dev],
                "getPrimaryService"), "pending")

\* getPrimaryService() has resolved; getCharacteristic() is called
ServiceResolved(f, c) ==
    Result(Call([f EXCEPT !.svc = c.dev], "getCharacteristic"), "pending")

\* getCharacteristic() has resolved; startNotifications() is called
CharResolved(f, c) ==
    Result(Call([f EXCEPT !.chr = c.dev], "startNotifications"), "pending")

\* (mutation) the record takes its id from the server handle
Mut_RecordId(f, c) == f.srv

\* the id the Device Record of a finished connect or reconnect carries
RecordId(f, c) == f.dev

\* (mutation) every call adds a listener of its own
Mut_AddValueListener(n) == n + 1

\* bluetoothCharacteristic.addEventListener('characteristicvaluechanged',
\* handleCharacteristicValueChanged) on an object that carries n listeners:
\* the same function is not added twice
AddValueListener(n) == IF n = 0 THEN 1 ELSE n

\* The tail of connectToArduino() and reconnectToArduino(), run when
\* startNotifications() of call c has resolved: result "ok" when the call
\* fulfils.  Reading a property of a handle that is null by now throws a
\* TypeError inside the try block.
FinishConnect(f0, c) ==
    LET f1 == [f0 EXCEPT !.g[c.dev].notifying = TRUE] IN
    IF f1.chr = NULL THEN CatchConnect(f1, TypeError)
    ELSE LET f2 == Call([f1 EXCEPT !.g[f1.chr].valueListener =
                                       IF f1.g[f1.chr].connected
                                       THEN AddValueListener(@) ELSE 0],
                        "addEventListener") IN
         IF f2.dev = NULL THEN CatchConnect(f2, TypeError)
         ELSE LET device == BluetoothDeviceRecord(RecordId(f2, c), TRUE) IN
              Result(FireOnConnected([f2 EXCEPT !.rec = device], device), "ok")

\* the error a rejected platform promise carries
RejectKind(c) ==
    CASE c.pc = "chooser" -> UserCancelled
      [] c.op = "send" -> WriteError
      [] OTHER -> GattError

\* the platform promise call c awaits has rejected: the catch block runs
RejectCall(f, c) ==
    IF c.op = "send" THEN ThrowSend(f, RejectKind(c))
    ELSE CatchConnect(f, RejectKind(c))

\* handleCharacteristicValueChanged(event)
handleCharacteristicValueChanged(f, bytes) == FireOnDataReceived(f, Decode(bytes))

\* the platform dispatches characteristicvaluechanged to the n listeners
\* of the characteristic object
RECURSIVE Dispatch(_, _, _)
Dispatch(f, bytes, n) ==
    IF n = 0 THEN f
    ELSE Dispatch(handleCharacteristicValueChanged(f, bytes), bytes, n - 1)

\* ------------------------------------------------------------------------
\* Callers of the adapter

\* BluetoothScreen.handleConnect after the await, and its catch block
HandleConnectThen(f) == setConnectionState(f, "connecting")
HandleConnectCatch(f, err) == setConnectionState(setError(f, err), "error")

\* BluetoothProvider.connect / reconnect after the await
ProviderConnectThen(f, rec) ==
    IF rec # NullRecord THEN setConnected(setDevice(f, rec), TRUE) ELSE f

\* the adapter function of call c has settled with frame f: the caller that
\* awaits it goes on (BluetoothProvider rethrows a failure and does no more)
Settle(c, f) ==
    IF f.result = "ok"
    THEN (IF c.caller = "screen" THEN HandleConnectThen(f)
          ELSE IF c.op \in {"connect", "reconnect"} THEN ProviderConnectThen(f, f.rec)
          ELSE f)
    ELSE (IF c.caller = "screen" THEN HandleConnectCatch(f, f.result) ELSE f)

ScreenCall == [NoCall EXCEPT !.op = "connect", !.caller = "screen"]
ProviderCall(op) == [NoCall EXCEPT !.op = op, !.caller = "provider"]

\* a caller's function from its start to the first await or, when the
\* adapter function throws at once, to its end
Begin(c, f) == IF f.result = "pending" THEN f ELSE Settle(c, f)

\* BluetoothScreen.handleConnect
HandleConnect(f) ==
    Begin(ScreenCall,
          connectToArduino(setError(setConnectionState(f, "searching"), "")))

\* BluetoothProvider.connect, reconnect, sendData
ProviderConnect(f) == Begin(ProviderCall("connect"), connectToArduino(f))
ProviderReconnect(f) == Begin(ProviderCall("reconnect"), reconnectToArduino(f))
ProviderSendData(f, data) == Begin(ProviderCall("send"), sendToArduino(f, data))

\* BluetoothScreen.handleDisconnect
HandleDisconnect(f, fires) ==
    setConnectedDevice(setConnectionState(disconnectFromArduino(f, fires), "idle"),
                       NullRecord)

\* BluetoothProvider.disconnect
ProviderDisconnect(f, fires) ==
    setConnected(setDevice(disconnectFromArduino(f, fires), NullRecord), FALSE)

\* (mutation) the mount effect does not look at getCurrentDevice()
Mut_ProviderMount(f) == [f EXCEPT !.p.mounted = TRUE]

\* BluetoothProvider's mount effect, after it has registered its handlers
ProviderMount(f) ==
    LET f0 == [f EXCEPT !.p.mounted = TRUE]
        currentDevice == getCurrentDevice(f0) IN
    IF currentDevice # NullRecord /\ currentDevice.connected
    THEN setConnected(setDevice(f0, currentDevice), TRUE)
    ELSE f0

\* BluetoothScreen's first mount effect
ScreenMount(f) ==
    [f EXCEPT !.s.mounted = TRUE, !.s.bluetoothAvailable = isBluetoothSupported]

\* the keys each component registers
ProviderKeys == CallbackKeys
ScreenKeys == {"onConnected", "onDisconnected", "onError"}

\* ------------------------------------------------------------------------
\* State machine

NoHistory == [selected |-> 0, everSucceeded |-> FALSE,
              afterDisconnect |-> "no", started |-> 0, budget |-> 0]

\* the state after the module is loaded, with room for b connect or
\* reconnect calls
Loaded(b) ==
    /\ navigatorBluetooth \in BOOLEAN
    /\ bluetoothDevice = NULL
    /\ bluetoothServer = NULL
    /\ bluetoothService = NULL
    /\ bluetoothCharacteristic = NULL
    /\ callbacks = [k \in CallbackKeys |-> "none"]
    /\ gatt = [d \in Devices |-> GattIdle]
    /\ calls = <<>>
    /\ screen = [mounted |-> FALSE, connectionState |-> "idle",
                 connectedDevice |-> NullRecord, error |-> "",
                 bluetoothAvailable |-> TRUE, timer |-> FALSE]
    /\ provider = [mounted |-> FALSE, device |-> NullRecord,
                   connected |-> FALSE, lastReceivedData |-> <<>>]
    /\ hist = [NoHistory EXCEPT !.budget = b]

Init == Loaded(MaxOps)

\* The task ends: its frame becomes the state, React re-renders the screen
\* and runs the auto-advance effect.
Commit(f) ==
    /\ bluetoothDevice' = f.dev
    /\ bluetoothServer' = f.srv
    /\ bluetoothService' = f.svc
    /\ bluetoothCharacteristic' = f.chr
    /\ gatt' = f.g
    /\ provider' = f.p
    /\ screen' = [f.s EXCEPT !.timer =
                     AutoAdvanceEffect(screen.connectionState,
                                       f.s.connectionState, screen.timer)]
    /\ UNCHANGED navigatorBluetooth

\* call c may suspend: the bounds leave room for it
HasFreeSlot(c) ==
    /\ Len(calls) < MaxCalls
    /\ c.op # "send" => hist.budget > 0

\* history: call c has suspended; call c has settled with frame f (a
\* connect or reconnect has succeeded)
Started(h, c) ==
    IF c.op = "send" THEN h
    ELSE [h EXCEPT !.started = 1, !.budget = @ - 1]
Settled(h, c, f) ==
    [h EXCEPT !.everSucceeded = @ \/ (c.op # "send" /\ f.result = "ok")]

\* A caller's function has run on frame f: when its adapter function is
\* suspended, call c waits for the platform promise pc.
Invoke(c, pc, f) ==
    /\ Commit(f)
    /\ IF f.result = "pending"
       THEN /\ HasFreeSlot(c)
            /\ calls' = Append(calls, [c EXCEPT !.pc = pc])
            /\ hist' = Started(hist, c)
       ELSE /\ calls' = calls
            /\ hist' = Settled(hist, c, f)
    /\ UNCHANGED callbacks

\* --- mounting ----------------------------------------------------------

\* BluetoothProvider mounts: its effect registers the handlers and seeds
\* the published state from getCurrentDevice()
MountProvider ==
    /\ ~provider.mounted
    /\ callbacks' = setBluetoothCallbacks(callbacks, ProviderKeys, "provider")
    /\ Commit(ProviderMount(Frame))
    /\ UNCHANGED <<calls, hist>>

\* BluetoothScreen mounts: its two mount effects run
MountScreen ==
    /\ ~screen.mounted
    /\ callbacks' = setBluetoothCallbacks(callbacks, ScreenKeys, "screen")
    /\ Commit(ScreenMount(Frame))
    /\ UNCHANGED <<calls, hist>>

\* --- user operations ---------------------------------------------------

\* the user presses "Connect to Lumi" (disabled without Bluetooth support)
handleConnect ==
    /\ screen.mounted
    /\ screen.connectionState \in {"idle", "error"}
    /\ screen.bluetoothAvailable
    /\ Invoke(ScreenCall, "chooser", HandleConnect(Frame))

\* a consumer calls BluetoothProvider.connect
connect ==
    /\ provider.mounted
    /\ Invoke(ProviderCall("connect"), "chooser", ProviderConnect(Frame))

\* a consumer calls BluetoothProvider.reconnect
reconnect ==
    /\ provider.mounted
    /\ Invoke([ProviderCall("reconnect") EXCEPT !.dev = bluetoothDevice],
              "gatt", ProviderReconnect(Frame))

\* a consumer calls BluetoothProvider.sendData
sendData ==
    /\ provider.mounted
    /\ \E data \in SendData :
          Invoke([ProviderCall("send") EXCEPT !.dev = bluetoothCharacteristic],
                 "write", ProviderSendData(Frame, data))

\* gatt.disconnect() aborts the platform promises pending on the device
Abort(cs, d) ==
    [i \in DOMAIN cs |-> IF cs[i].dev = d /\ cs[i].pc # "chooser"
                         THEN [cs[i] EXCEPT !.pc = "aborted"] ELSE cs[i]]

\* a dropped link fails the platform promises that need the link
Orphan(cs, d) ==
    [i \in DOMAIN cs |-> IF cs[i].dev = d
                            /\ cs[i].pc \in {"service", "char", "notify", "write"}
                         THEN [cs[i] EXCEPT !.pc = "aborted"] ELSE cs[i]]

\* history: a disconnect has just run; it was graceful when it took down
\* the link of a connection that a connect or reconnect had completed
AfterDisconnect(f) ==
    IF hist.everSucceeded /\ DisconnectRequested(f) /\ f.chr # NULL
    THEN "graceful"
    ELSE "yes"

Disconnected(f, fires) ==
    /\ (fires => DisconnectRequested(Frame))
    /\ Commit(f)
    /\ calls' = IF DisconnectRequested(Frame)
                THEN Abort(calls, bluetoothDevice) ELSE calls
    /\ hist' = [hist EXCEPT !.afterDisconnect = AfterDisconnect(Frame)]
    /\ UNCHANGED callbacks

\* the user presses "Disconnect"
handleDisconnect ==
    /\ screen.mounted
    /\ screen.connectionState = "connected"
    /\ \E fires \in BOOLEAN : Disconnected(HandleDisconnect(Frame, fires), fires)

\* a consumer calls BluetoothProvider.disconnect
disconnect ==
    /\ provider.mounted
    /\ \E fires \in BOOLEAN : Disconnected(ProviderDisconnect(Frame, fires), fires)

\* the "Cancel" button: setConnectionState("idle")
Cancel(f) == setConnectionState(f, "idle")

\* the user presses "Cancel"
cancel ==
    /\ screen.mounted
    /\ screen.connectionState \in {"searching", "connecting"}
    /\ Commit(Cancel(Frame))
    /\ calls' = [i \in DOMAIN calls |->
                   IF calls[i].caller = "screen"
                   THEN [calls[i] EXCEPT !.cancelled = TRUE] ELSE calls[i]]
    /\ UNCHANGED <<hist, callbacks>>

\* the user presses "Skip for now": handleSkip calls onNext()
handleSkip ==
    /\ screen.mounted
    /\ screen.connectionState \in {"idle", "error"}
    /\ UNCHANGED vars

\* the auto-advance timer fires and calls onNext()
AutoAdvance ==
    /\ screen.timer
    /\ screen' = [screen EXCEPT !.timer = FALSE]
    /\ UNCHANGED <<navigatorBluetooth, bluetoothDevice, bluetoothServer,
                   bluetoothService, bluetoothCharacteristic, callbacks, gatt,
                   calls, provider, hist>>

\* --- platform promises settle ------------------------------------------

Pending(i, op, pc) ==
    /\ i \in DOMAIN calls
    /\ calls[i].op \in op
    /\ calls[i].pc = pc

Suspend(i, pc, d) == calls' = [calls EXCEPT ![i].pc = pc, ![i].dev = d]

\* the chooser result of call i replaces the device handle the other calls
\* in flight go on to read
Overtake(cs, i) ==
    [j \in DOMAIN cs |-> IF j = i THEN cs[j] ELSE [cs[j] EXCEPT !.overtaken = TRUE]]
Release(i) == calls' = SubSeq(calls, 1, i - 1) \o SubSeq(calls, i + 1, Len(calls))

\* requestDevice() resolves: the user picked peripheral d in the chooser
\* (peripherals are numbered in the order they are first picked)
ChooserResolve(i, d) ==
    /\ Pending(i, {"connect"}, "chooser")
    /\ d <= hist.selected + 1
    /\ Commit(ChooserResolved(Frame, d))
    /\ calls' = Overtake([calls EXCEPT ![i].pc = "gatt", ![i].dev = d], i)
    /\ hist' = [hist EXCEPT !.selected = IF d > @ THEN d ELSE @,
                            !.afterDisconnect = "no"]
    /\ UNCHANGED callbacks

\* gatt.connect() resolves
GattResolve(i) ==
    /\ Pending(i, {"connect", "reconnect"}, "gatt")
    /\ Commit(GattResolved(Frame, calls[i]))
    /\ Suspend(i, "service", calls[i].dev)
    /\ UNCHANGED <<hist, callbacks>>

\* getPrimaryService() resolves
ServiceResolve(i) ==
    /\ Pending(i, {"connect", "reconnect"}, "service")
    /\ gatt[calls[i].dev].connected
    /\ Commit(ServiceResolved(Frame, calls[i]))
    /\ Suspend(i, "char", calls[i].dev)
    /\ UNCHANGED <<hist, callbacks>>

\* getCharacteristic() resolves
CharResolve(i) ==
    /\ Pending(i, {"connect", "reconnect"}, "char")
    /\ gatt[calls[i].dev].connected
    /\ Commit(CharResolved(Frame, calls[i]))
    /\ Suspend(i, "notify", calls[i].dev)
    /\ UNCHANGED <<hist, callbacks>>

\* startNotifications() resolves: the call runs to its end and settles,
\* and the caller that awaits it goes on
NotifyResolve(i) ==
    /\ Pending(i, {"connect", "reconnect"}, "notify")
    /\ gatt[calls[i].dev].connected
    /\ LET f == FinishConnect(Frame, calls[i]) IN
       /\ Commit(Settle(calls[i], f))
       /\ hist' = Settled(hist, calls[i], f)
    /\ Release(i)
    /\ UNCHANGED callbacks

\* writeValue() resolves: sendToArduino() fulfils
WriteResolve(i) ==
    /\ Pending(i, {"send"}, "write")
    /\ gatt[calls[i].dev].connected
    /\ Commit(Settle(calls[i], Result(Frame, "ok")))
    /\ Release(i)
    /\ UNCHANGED <<hist, callbacks>>

\* the awaited platform promise rejects: the call's catch block runs, the
\* call rejects and the caller's catch block runs
Reject(i) ==
    /\ i \in DOMAIN calls
    /\ LET f == RejectCall(Frame, calls[i]) IN
       /\ Commit(Settle(calls[i], f))
       /\ hist' = Settled(hist, calls[i], f)
    /\ Release(i)
    /\ UNCHANGED callbacks

\* --- platform events ---------------------------------------------------

\* the link to peripheral d drops: gattserverdisconnected
LinkDrop(d) ==
    /\ gatt[d].connected
    /\ Commit(LinkDown(Frame, d, TRUE))
    /\ calls' = Orphan(calls, d)
    /\ UNCHANGED <<hist, callbacks>>

\* peripheral d notifies a value: characteristicvaluechanged
Notification(d, bytes) ==
    /\ gatt[d].connected
    /\ gatt[d].notifying
    /\ gatt[d].valueListener > 0
    /\ Commit(Dispatch(Frame, bytes, gatt[d].valueListener))
    /\ UNCHANGED <<calls, hist, callbacks>>

Next ==
    \/ MountProvider
    \/ MountScreen
    \/ handleConnect
    \/ connect
    \/ reconnect
    \/ sendData
    \/ handleDisconnect
    \/ disconnect
    \/ cancel
    \/ handleSkip
    \/ AutoAdvance
    \/ \E i \in Slots, d \in Devices : ChooserResolve(i, d)
    \/ \E i \in Slots : GattResolve(i)
    \/ \E i \in Slots : ServiceResolve(i)
    \/ \E i \in Slots : CharResolve(i)
    \/ \E i \in Slots : NotifyResolve(i)
    \/ \E i \in Slots : WriteResolve(i)
    \/ \E i \in Slots : Reject(i)
    \/ \E d \in Devices : LinkDrop(d)
    \/ \E d \in Devices, bytes \in Payloads : Notification(d, bytes)

Spec == Init /\ [][Next]_vars

\* behaviours with room for one more connect or reconnect call, so that
\* two of them can overlap or follow each other
InitOverlap == Loaded(MaxOps + 1)

SpecOverlap == InitOverlap /\ [][Next]_vars

\* ------------------------------------------------------------------------
\* Properties

\* C1: once a disconnect() has run to completion, getCurrentDevice()
\* returns null, and keeps returning null until a connect() stores the
\* device picked in the chooser.
C1_NullAfterDisconnect ==
    hist.afterDisconnect # "no" => getCurrentDevice(Frame) = NullRecord

\* C1 happens: a connect() picked a device and has settled, and a
\* disconnect() has run since
C1_Witness ==
    /\ hist.afterDisconnect # "no"
    /\ hist.selected > 0
    /\ calls = <<>>

\* C2 (as claimed): while no connect() or reconnect() has succeeded, and
\* no call is in flight, send(payload) fails with NotConnected and makes
\* no platform call.
C2_SendRefusedBeforeSuccess ==
    (~hist.everSucceeded /\ calls = <<>>) =>
        \A data \in SendData :
            /\ sendToArduino(Frame, data).result = NotConnected
            /\ sendToArduino(Frame, data).platform = {}

AllHandlesNull(f) ==
    f.dev = NULL /\ f.srv = NULL /\ f.svc = NULL /\ f.chr = NULL

\* C4: while no device has ever been picked in the chooser, reconnect()
\* fails with NoPriorDevice, makes no platform call and leaves all four
\* handles null.
C4_ReconnectWithoutDevice ==
    hist.selected = 0 =>
        /\ reconnectToArduino(Frame).result = NoPriorDevice
        /\ reconnectToArduino(Frame).platform = {}
        /\ AllHandlesNull(ProviderReconnect(Frame))

\* C4 happens: a connect() was rejected at the chooser and has settled, a
\* disconnect() has run, and the provider can call reconnect()
C4_Witness ==
    /\ hist.selected = 0
    /\ hist.started > 0
    /\ calls = <<>>
    /\ hist.afterDisconnect # "no"
    /\ provider.mounted

\* C5 (as claimed): every failure of connect, reconnect or send invokes
\* the registered onError handler, once, before the error reaches the caller.
C5_OnErrorOnEveryFailure ==
    callbacks.onError # "none" =>
        /\ connectToArduino(Frame).result # "pending"
              => connectToArduino(Frame).nError = 1
        /\ reconnectToArduino(Frame).result # "pending"
              => reconnectToArduino(Frame).nError = 1
        /\ \A data \in SendData :
              sendToArduino(Frame, data).result # "pending"
                 => sendToArduino(Frame, data).nError = 1
        /\ \A i \in DOMAIN calls :
              /\ RejectCall(Frame, calls[i]).nError = 1
              /\ (calls[i].pc = "notify" /\ gatt[calls[i].dev].connected
                  /\ FinishConnect(Frame, calls[i]).result # "ok")
                     => FinishConnect(Frame, calls[i]).nError = 1

\* notifications reach the adapter; a write through the handle can succeed
NotificationsActive ==
    \E d \in Devices :
        gatt[d].connected /\ gatt[d].notifying /\ gatt[d].valueListener > 0
WritePossible ==
    bluetoothCharacteristic # NULL /\ gatt[bluetoothCharacteristic].connected

\* C6 (as claimed): with no adapter call in flight, the characteristic
\* handle is non-null exactly when notifications are active and a write
\* is possible.
C6_CharacteristicIffActive ==
    calls = <<>> =>
        (bluetoothCharacteristic # NULL <=> (NotificationsActive /\ WritePossible))

\* call c awaits startNotifications() and the platform can resolve it
AtLastStep(c) ==
    c.op \in {"connect", "reconnect"} /\ c.pc = "notify" /\ gatt[c.dev].connected

\* C7 (as claimed): with the screen's handlers registered, when a connect
\* the user started from the screen succeeds at every step, the screen's
\* state is "connected" once the call has settled, reached through
\* "connecting", and the auto-advance timer is armed.
C7_ConnectEndsConnected ==
    \A i \in DOMAIN calls :
        (/\ calls[i].caller = "screen"
         /\ ~calls[i].cancelled
         /\ AtLastStep(calls[i])
         /\ callbacks.onConnected = "screen"
         /\ screen.connectionState = "searching"
         /\ FinishConnect(Frame, calls[i]).result = "ok")
        => LET f == Settle(calls[i], FinishConnect(Frame, calls[i])) IN
           /\ f.s.connectionState = "connected"
           /\ f.trace = <<"connecting", "connected">>
           /\ AutoAdvanceEffect(screen.connectionState, f.s.connectionState,
                                screen.timer)

\* C8 (as claimed): a connect() or reconnect() that succeeds invokes the
\* registered onConnected handler exactly once, with a record whose
\* connected field is true and whose id is the id of the device the call
\* selected; one that fails never invokes it.
C8_OnConnectedOnceWithSelectedId ==
    callbacks.onConnected # "none" =>
        \A i \in DOMAIN calls :
            /\ RejectCall(Frame, calls[i]).nConnected = 0
            /\ AtLastStep(calls[i]) =>
                  LET f == FinishConnect(Frame, calls[i]) IN
                  IF f.result = "ok"
                  THEN /\ f.nConnected = 1
                       /\ f.rec.connected
                       /\ f.rec.id = calls[i].dev
                  ELSE f.nConnected = 0

\* C8 (amended): a connect() or reconnect() that succeeds invokes the
\* registered onConnected handler exactly once, with a record whose
\* connected field is true and whose id is the id of the device the adapter
\* holds when the call completes: the device the call selected, unless the
\* chooser of another connect() has replaced the device handle while the
\* call was pending.  One that fails never invokes it.
C8_OnConnectedOnceWithHeldId ==
    callbacks.onConnected # "none" =>
        \A i \in DOMAIN calls :
            /\ RejectCall(Frame, calls[i]).nConnected = 0
            /\ AtLastStep(calls[i]) =>
                  LET f == FinishConnect(Frame, calls[i]) IN
                  IF f.result = "ok"
                  THEN /\ f.nConnected = 1
                       /\ f.rec.connected
                       /\ f.rec.id = bluetoothDevice
                       /\ ~calls[i].overtaken => f.rec.id = calls[i].dev
                  ELSE f.nConnected = 0

\* C8 happens: with a handler registered, a call is about to complete
\* after the chooser of another call has replaced the device it selected
C8_Witness ==
    /\ callbacks.onConnected # "none"
    /\ \E i \in DOMAIN calls :
          /\ AtLastStep(calls[i])
          /\ calls[i].overtaken
          /\ bluetoothDevice # calls[i].dev
          /\ FinishConnect(Frame, calls[i]).result = "ok"

\* C9 (as claimed): once the user has pressed cancel, the settlement of
\* the connect() that was in flight, success or failure, changes neither
\* the screen's connection state nor the error it displays.
C9_CancelledSettleIgnored ==
    \A i \in DOMAIN calls :
        calls[i].cancelled =>
            /\ LET f == Settle(calls[i], RejectCall(Frame, calls[i])) IN
               /\ f.s.connectionState = screen.connectionState
               /\ f.s.error = screen.error
            /\ AtLastStep(calls[i]) =>
               LET f == Settle(calls[i], FinishConnect(Frame, calls[i])) IN
               /\ f.s.connectionState = screen.connectionState
               /\ f.s.error = screen.error

\* C10: when the link of a peripheral drops while the screen shows
\* "connected", the disconnection event clears all four handles, invokes
\* onDisconnected exactly once and puts the screen in "idle" with no
\* connected device.
C10_LinkDropWhileConnected ==
    \A d \in Devices :
        (screen.connectionState = "connected" /\ gatt[d].connected) =>
            LET f == LinkDown(Frame, d, TRUE) IN
            /\ AllHandlesNull(f)
            /\ f.nDisconnected = 1
            /\ f.s.connectionState = "idle"
            /\ f.s.connectedDevice = NullRecord

\* C10 happens: the screen shows "connected", the adapter holds a device
\* whose link is up, and the link can drop
C10_Witness ==
    /\ screen.connectionState = "connected"
    /\ bluetoothDevice # NULL
    /\ gatt[bluetoothDevice].connected
    /\ screen.connectedDevice.id = bluetoothDevice

\* C11: registering merges.  Whatever the registry holds, registering the
\* keys B for an owner leaves every key of B with that owner's handler and
\* every other key with the handler it had; and once the provider has
\* registered its four handlers and the screen then its three, the
\* provider's onDataReceived handler is still registered while the other
\* three keys hold the screen's handlers.
C11_RegisterMerges ==
    /\ \A B \in SUBSET CallbackKeys, who \in {"provider", "screen"} :
          LET new == setBluetoothCallbacks(callbacks, B, who) IN
          \A k \in CallbackKeys :
              new[k] = IF k \in B THEN who ELSE callbacks[k]
    /\ (provider.mounted /\ ~screen.mounted) =>
          LET new == setBluetoothCallbacks(callbacks, ScreenKeys, "screen") IN
          /\ new.onDataReceived = "provider"
          /\ \A k \in ScreenKeys : new[k] = "screen"
    /\ (provider.mounted /\ screen.mounted /\ callbacks.onConnected = "screen") =>
          /\ callbacks.onDataReceived = "provider"
          /\ \A k \in ScreenKeys : callbacks[k] = "screen"

\* C11 happens: the provider registered first, the screen second
C11_Witness ==
    /\ provider.mounted
    /\ screen.mounted
    /\ callbacks.onConnected = "screen"
    /\ callbacks.onDataReceived = "provider"

SameHandles(f) ==
    /\ f.dev = bluetoothDevice
    /\ f.srv = bluetoothServer
    /\ f.svc = bluetoothService
    /\ f.chr = bluetoothCharacteristic

\* C12: without navigator.bluetooth, connect() rejects with NotSupported,
\* makes no platform call, changes no handle and invokes the registered
\* onError handler exactly once with that error; a connect started by the
\* screen ends with the screen in "error" showing the error's message, and
\* so does a connect by another caller while the screen's onError handler
\* is registered.
C12_NotSupported ==
    ~navigatorBluetooth =>
        /\ LET f == connectToArduino(Frame) IN
           /\ f.result = NotSupported
           /\ f.platform = {}
           /\ SameHandles(f)
           /\ callbacks.onError # "none" => (f.nError = 1 /\ f.errArg = NotSupported)
        /\ screen.mounted =>
              LET h == HandleConnect(Frame) IN
              /\ h.s.connectionState = "error"
              /\ h.s.error = NotSupported
              /\ h.nError <= 1
              /\ SameHandles(h)
        /\ (provider.mounted /\ callbacks.onError = "screen") =>
              LET p == ProviderConnect(Frame) IN
              /\ p.s.connectionState = "error"
              /\ p.s.error = NotSupported
              /\ p.nError = 1

\* C12 happens: without navigator.bluetooth a connect() has been rejected
\* and has left the screen in "error" with the message
C12_Witness ==
    /\ ~navigatorBluetooth
    /\ screen.mounted
    /\ screen.connectionState = "error"
    /\ screen.error = NotSupported

\* C13: disconnect() leaves all four handles null in every state, whether
\* or not a device is held and whether or not its link is up, and requests
\* a platform disconnect exactly when a device is held whose link is up;
\* in the state a disconnect() leaves, a second disconnect() makes no
\* platform call, invokes no callback and changes nothing.
C13_DisconnectIdempotent ==
    /\ \A fires \in BOOLEAN :
          (fires => DisconnectRequested(Frame)) =>
             LET f == disconnectFromArduino(Frame, fires) IN
             /\ f.result = "ok"
             /\ AllHandlesNull(f)
             /\ ("gatt.disconnect" \in f.platform) <=>
                   (bluetoothDevice # NULL /\ gatt[bluetoothDevice].connected)
             /\ \A g \in BOOLEAN :
                   (g => DisconnectRequested(f)) =>
                      LET f2 == disconnectFromArduino([f EXCEPT !.platform = {}], g) IN
                      /\ f2.platform = {}
                      /\ f2.nDisconnected = f.nDisconnected
                      /\ f2.nError = f.nError
                      /\ f2 = [f EXCEPT !.platform = {}]
    /\ AllHandlesNull(Frame) =>
          /\ ~DisconnectRequested(Frame)
          /\ disconnectFromArduino(Frame, FALSE) = Result(Frame, "ok")

\* C13 happens: a disconnect() has taken down a completed connection and
\* left the adapter disconnected; a second one can run
C13_Witness ==
    /\ hist.afterDisconnect = "graceful"
    /\ AllHandlesNull(Frame)
    /\ \A d \in Devices : ~gatt[d].connected
    /\ provider.mounted

\* peripheral d can notify: its link is up, its characteristic notifies
\* and carries a listener
CanNotify(d) ==
    gatt[d].connected /\ gatt[d].notifying /\ gatt[d].valueListener > 0

\* what a notification of peripheral d with the value bytes does when an
\* onDataReceived handler is registered: one invocation, with the decoded
\* value of this notification alone, which the provider publishes
DeliveredOnce(d, bytes) ==
    LET f == Dispatch(Frame, bytes, gatt[d].valueListener) IN
    /\ f.nData = 1
    /\ f.data = Decode(bytes)
    /\ Encode(f.data) = bytes
    /\ callbacks.onDataReceived = "provider" => f.p.lastReceivedData = f.data

\* C14: every notification invokes the registered onDataReceived handler
\* exactly once with the decoded value of that notification alone, also
\* on a characteristic a reconnect() has subscribed to again; and the
\* provider's lastReceivedData only ever changes to the value of the
\* notification that is being delivered.
C14_NotificationDeliveredOnce ==
    /\ [](\A d \in Devices, bytes \in Payloads :
             (CanNotify(d) /\ callbacks.onDataReceived # "none")
                => DeliveredOnce(d, bytes))
    /\ [][provider'.lastReceivedData # provider.lastReceivedData =>
             \E d \in Devices, bytes \in Payloads :
                 /\ CanNotify(d)
                 /\ provider'.lastReceivedData = Decode(bytes)]_vars

\* C14 happens: a value has been delivered, and a reconnect() is about to
\* subscribe again to a characteristic that already carries the listener
C14_Witness ==
    /\ callbacks.onDataReceived = "provider"
    /\ provider.lastReceivedData # <<>>
    /\ \E i \in DOMAIN calls :
          /\ calls[i].op = "reconnect"
          /\ AtLastStep(calls[i])
          /\ CanNotify(calls[i].dev)
          /\ bluetoothCharacteristic = calls[i].dev
          /\ FinishConnect(Frame, calls[i]).result = "ok"

\* the provider publishes "disconnected"
PublishedDisconnected(f) == ~f.p.connected /\ f.p.device = NullRecord

\* C15 (as claimed): with the provider mounted and no call in flight, the
\* provider publishes isConnected only while the adapter holds a connected
\* device, whichever component registered its handlers last; and after a
\* disconnection event, or a disconnect() by the screen or through the
\* provider, it publishes isConnected = false and device = null.
C15_ProviderMirrorsAdapter ==
    (provider.mounted /\ calls = <<>>) =>
        /\ provider.connected => isConnected(Frame)
        /\ \A d \in Devices :
              gatt[d].connected => PublishedDisconnected(LinkDown(Frame, d, TRUE))
        /\ \A fires \in BOOLEAN :
              (fires => DisconnectRequested(Frame)) =>
                 /\ PublishedDisconnected(ProviderDisconnect(Frame, fires))
                 /\ (screen.mounted /\ screen.connectionState = "connected")
                       => PublishedDisconnected(HandleDisconnect(Frame, fires))

\* C16 (as claimed): once every call has settled, also after a
\* disconnect() or a disconnection event that ran while a connect() or
\* reconnect() was suspended, the handles form a chain: characteristic
\* non-null implies service non-null implies server non-null implies
\* device non-null, so send() passes its check only when
\* getCurrentDevice() is non-null.
C16_HandleChain ==
    calls = <<>> =>
        /\ bluetoothCharacteristic # NULL => bluetoothService # NULL
        /\ bluetoothService # NULL => bluetoothServer # NULL
        /\ bluetoothServer # NULL => bluetoothDevice # NULL
        /\ ~SendRefused(Frame) => getCurrentDevice(Frame) # NullRecord

\* C17 (as claimed): a disconnection event of a peripheral other than the
\* one the adapter holds, while the held one is connected and subscribed,
\* leaves the four handles as they are and does not invoke onDisconnected.
C17_StaleDeviceEventIgnored ==
    \A d \in Devices :
        (/\ gatt[d].connected
         /\ bluetoothDevice # NULL
         /\ bluetoothDevice # d
         /\ bluetoothCharacteristic = bluetoothDevice
         /\ CanNotify(bluetoothDevice)
         /\ calls = <<>>)
        => LET f == LinkDown(Frame, d, TRUE) IN
           /\ SameHandles(f)
           /\ f.nDisconnected = 0

\* no callback of the registry was invoked in frame f
NoCallbackFired(f) ==
    f.nConnected = 0 /\ f.nDisconnected = 0 /\ f.nError = 0 /\ f.nData = 0

\* C18: when the provider mounts while the adapter holds a device whose
\* link is up, it publishes that device's record with connected = true and
\* isConnected = true, and no callback fires; when the adapter holds no
\* device, or one whose link is down, it keeps publishing null and false.
C18_ProviderSeedsOnMount ==
    ~provider.mounted =>
        LET f == ProviderMount(Frame) IN
        /\ NoCallbackFired(f)
        /\ SameHandles(f)
        /\ IF bluetoothDevice # NULL /\ gatt[bluetoothDevice].connected
           THEN /\ f.p.connected
                /\ f.p.device = [id |-> bluetoothDevice,
                                 name |-> DeviceName(bluetoothDevice),
                                 connected |-> TRUE]
           ELSE /\ ~f.p.connected
                /\ f.p.device = NullRecord

\* C18 happens: a connection was completed before the provider mounts
C18_Witness ==
    /\ ~provider.mounted
    /\ hist.everSucceeded
    /\ isConnected(Frame)
    /\ bluetoothCharacteristic = bluetoothDevice

\* C19: whenever the provider publishes isConnected = true it publishes a
\* device.
C19_ConnectedImpliesDevice ==
    provider.connected => provider.device # NullRecord

\* C19 happens: the provider publishes a connection, and has done so
\* through its own handlers
C19_Witness ==
    /\ provider.mounted
    /\ provider.connected
    /\ provider.device.connected
    /\ callbacks.onConnected = "provider"
    /\ hist.everSucceeded

====
